---- MODULE Spec2Model ----
(***************************************************************************)
(* Noteful API: the Express route handlers of routes/notes.js and          *)
(* routes/folders.js over the "notes" and "folders" collections.           *)
(*                                                                         *)
(* A string is a sequence of one-character strings, so that its length and *)
(* its characters can be inspected the way ObjectId.isValid inspects them. *)
(* A text (title, content, name, searchTerm) is the sequence of its words. *)
(* A JSON object is a record; a property that is undefined is a field that *)
(* is not in the record's DOMAIN.                                          *)
(***************************************************************************)
EXTENDS Integers, Sequences, FiniteSets, TLC

(* ------------------------------ bounds --------------------------------- *)
\* number of ObjectIds the driver generates in one behaviour
MaxOid == 2

(* ---------------------------- identifiers ------------------------------ *)
HexLower == {"0", "1", "2", "3", "4", "5", "6", "7", "8", "9",
             "a", "b", "c", "d", "e", "f"}
HexUpper == {"A", "B", "C", "D", "E", "F"}

Rep(c, n) == [i \in 1..n |-> c]

\* the n-th identifier the driver generates (24 lower-case hex characters)
GenDigits == <<"a", "b", "c", "d", "e", "f">>
NewObjectId(n) == Rep("0", 23) \o <<GenDigits[n]>>

\* identifiers a client sends in the :id path segment
BadShortId == <<"9", "9", "-", "9", "9", "-", "9", "9">>
NonHex24Id == Rep("0", 23) \o <<"g">>
Str12Id    == <<"n", "o", "t", "-", "h", "e", "x", "-", "1", "2", "c", "h">>
UnknownId  == Rep("A", 24)
UpperIdOf(n) == Rep("0", 23) \o <<<<"A", "B", "C", "D", "E", "F">>[n]>>

IdInputs == {NewObjectId(n) : n \in 1..MaxOid} \cup {UpperIdOf(1)}
            \cup {BadShortId, NonHex24Id, Str12Id, UnknownId}

\* the shape the specification calls well formed: 24 hexadecimal characters
IsHex24(id) == Len(id) = 24 /\ \A i \in 1..24 : id[i] \in HexLower \cup HexUpper

\* mongoose.Types.ObjectId.isValid on a string (bson 1.x, the driver of
\* mongoose 5): any 12-character string, or 24 hexadecimal characters
isValid(id) == Len(id) = 12 \/ IsHex24(id)

ToLower(c) ==
  CASE c = "A" -> "a" [] c = "B" -> "b" [] c = "C" -> "c"
    [] c = "D" -> "d" [] c = "E" -> "e" [] c = "F" -> "f"
    [] OTHER -> c

\* hexadecimal code of the characters that occur in 12-character identifiers
CharCode(c) ==
  CASE c = "n" -> <<"6", "e">> [] c = "o" -> <<"6", "f">>
    [] c = "t" -> <<"7", "4">> [] c = "-" -> <<"2", "d">>
    [] c = "h" -> <<"6", "8">> [] c = "e" -> <<"6", "5">>
    [] c = "x" -> <<"7", "8">> [] c = "1" -> <<"3", "1">>
    [] c = "2" -> <<"3", "2">> [] c = "c" -> <<"6", "3">>
    [] OTHER -> <<"3", "0">>

RECURSIVE HexEncode(_)
HexEncode(s) == IF s = <<>> THEN <<>> ELSE CharCode(Head(s)) \o HexEncode(Tail(s))

\* the cast mongoose applies to an _id condition: the hex string of the
\* ObjectId, or CastFailed when the string is no ObjectId
CastFailed == <<>>
castObjectId(id) ==
  IF IsHex24(id) THEN [i \in 1..24 |-> ToLower(id[i])]
  ELSE IF Len(id) = 12 THEN HexEncode(id)
  ELSE CastFailed

(* ------------------------------ objects -------------------------------- *)
Has(o, f) == f \in DOMAIN o

Falsy_undefinedOnly(o, f) == ~Has(o, f)

\* JavaScript `!o.f` for a string property: undefined or the empty string
Falsy(o, f) == ~Has(o, f) \/ o[f] = <<>>

\* the properties of o named in fs that are defined
Pick(o, fs) == [f \in (fs \cap DOMAIN o) |-> o[f]]

(* ------------------------------- inputs -------------------------------- *)
\* the folderId and the tag the tests submit
FolderRef == Rep("1", 22) \o <<"0", "0">>
TagRef    == Rep("2", 22) \o <<"9", "9">>

NoteBodies ==
  { [title |-> <<"cats">>, content |-> <<"dogs", "dogs">>,
     folderId |-> FolderRef, tags |-> <<TagRef>>],
    [title |-> <<"dogs">>, content |-> <<"cats", "lorem">>],
    [title |-> <<"lorem">>],
    [content |-> <<"lorem">>],
    [title |-> <<>>, content |-> <<"cats">>] }

\* bodies sent to PUT /notes/:id: the bodies above that state a content
UpdateBodies == {body \in NoteBodies : "content" \in DOMAIN body}

FolderBodies ==
  { [name |-> <<"work">>], [name |-> <<"home">>], [name |-> <<>>],
    [foo |-> <<"bar">>] }

Queries ==
  { [searchTerm |-> <<"dogs">>], [searchTerm |-> <<"cats", "dogs">>],
    [searchTerm |-> <<"gaga">>], [searchTerm |-> <<>>], [foo |-> <<"bar">>] }

(* ------------------------------- state --------------------------------- *)
\* notes, folders: the documents of the two collections
\* nextOid: number of the next ObjectId the driver generates
\* clock:   the time the next note's created default reads; it advances
\*          between two creations
\* req, res: the last request and the response to it
\* calls:   the model calls the last request issued
VARIABLES notes, folders, nextOid, clock, req, res, calls

vars == <<notes, folders, nextOid, clock, req, res, calls>>

(* ----------------------- server.js error stages ------------------------ *)
\* the final error-handling middleware: err.status, or 500 when it has none
errorHandler(err) ==
  [status |-> IF Has(err, "status") THEN err.status ELSE 500,
   message |-> err.message, kind |-> "error", body |-> <<>>]

\* the catch-all stage reached by next() without an error
notFoundHandler == errorHandler([status |-> 404, message |-> "Not Found"])

jsonResponse(status, kind, body) ==
  [status |-> status, message |-> "", kind |-> kind, body |-> body]

(* ---------------------------- data access ------------------------------ *)
\* documents of a collection whose _id equals the cast of id
findById(coll, id) == {d \in coll : d.id = castObjectId(id)}

CastError == [message |-> "CastError", name |-> "CastError"]
DuplicateKeyError == [message |-> "E11000 duplicate key error", code |-> 11000]

Call(fn, id) == <<fn>>

\* sequences that hold every element of S exactly once
Orderings(S) ==
  {s \in [1..Cardinality(S) -> S] : \A i, j \in 1..Cardinality(S) : i # j => s[i] # s[j]}

Occurrences(text, w) == Cardinality({i \in DOMAIN text : text[i] = w})

FieldText(d, f) == IF Has(d, f) THEN d[f] ELSE <<>>

RECURSIVE TermScore(_, _)
TermScore(d, terms) ==
  IF terms = <<>> THEN 0
  ELSE Occurrences(FieldText(d, "title"), Head(terms))
       + Occurrences(FieldText(d, "content"), Head(terms))
       + TermScore(d, Tail(terms))

\* relevance of document d for a $text search: the text index covers
\* title and content, and any one term of the search matches
textScore(d, search) == TermScore(d, search)

find(coll, filter) ==
  IF Has(filter, "text") THEN {d \in coll : textScore(d, filter.text) > 0}
  ELSE coll

\* Query.sort: by descending text score for {score: {$meta: 'textScore'}},
\* else by the created field, ascending for 1 and descending for -1
IsSorted(s, sort) ==
  \A i, j \in DOMAIN s :
     i < j => IF Has(sort, "score")
              THEN textScore(s[i], sort.score) >= textScore(s[j], sort.score)
              ELSE IF sort.created = 1 THEN s[i].created <= s[j].created
              ELSE s[i].created >= s[j].created

(* ------------------------------- Init ---------------------------------- *)
NoRequest == [op |-> "none"]

Init ==
  /\ notes = {}
  /\ folders = {}
  /\ nextOid = 1
  /\ clock = 0
  /\ req = NoRequest
  /\ res = jsonResponse(0, "none", <<>>)
  /\ calls = <<>>

(* --------------------------- routes/notes.js --------------------------- *)
StoreUnchanged == UNCHANGED <<notes, folders, nextOid, clock>>

\* the messages of the handlers' errors; the backquotes of the source's
\* messages are written as apostrophes
MissingTitle == [message |-> "Missing 'title' in request body", status |-> 400]
MissingName  == [message |-> "Missing 'name' in request body", status |-> 400]
InvalidId    == [message |-> "The 'id' is not valid", status |-> 400]
NameExists   == [message |-> "The folder name already exists", status |-> 400]

\* filter and sort built by GET /notes
notesFilter(query) ==
  IF ~Falsy(query, "searchTerm") THEN [text |-> query.searchTerm] ELSE [none |-> TRUE]

notesSort_descending(query) ==
  IF ~Falsy(query, "searchTerm") THEN [score |-> query.searchTerm] ELSE [created |-> -1]

notesSort_default(query) == [created |-> 1]

notesSort(query) ==
  IF ~Falsy(query, "searchTerm") THEN [score |-> query.searchTerm] ELSE [created |-> 1]

GetNotes(query) ==
  /\ req' = [op |-> "GET /notes", query |-> query]
  /\ calls' = Call("Note.find", <<>>)
  /\ \E results \in Orderings(find(notes, notesFilter(query))) :
        /\ IsSorted(results, notesSort(query))
        /\ res' = jsonResponse(200, "array",
                     [i \in DOMAIN results |-> Pick(results[i], {"id", "title", "content", "created"})])
  /\ StoreUnchanged

GetNoteById(id) ==
  /\ req' = [op |-> "GET /notes/:id", id |-> id]
  /\ IF ~isValid(id)
     THEN /\ res' = errorHandler(InvalidId)
          /\ calls' = <<>>
     ELSE /\ calls' = Call("Note.findById", id)
          /\ IF findById(notes, id) # {}
             THEN \E d \in findById(notes, id) :
                     res' = jsonResponse(200, "object", Pick(d, {"id", "title", "content"}))
             ELSE res' = notFoundHandler
  /\ StoreUnchanged

newNote_titleOnly(body) == Pick(body, {"title"})

\* newItem of POST /notes
newNote(body) == Pick(body, {"title", "content"})

PostNote(body) ==
  /\ req' = [op |-> "POST /notes", body |-> body]
  /\ IF Falsy(body, "title")
     THEN /\ res' = errorHandler(MissingTitle)
          /\ calls' = <<>>
          /\ StoreUnchanged
     ELSE /\ nextOid <= MaxOid
          /\ LET newItem == newNote(body)
                 result  == newItem @@ [id |-> NewObjectId(nextOid), created |-> clock, tags |-> <<>>]
             IN /\ notes' = notes \cup {result}
                /\ res' = jsonResponse(201, "object", result)
          /\ clock' = clock + 1
          /\ nextOid' = nextOid + 1
          /\ calls' = Call("Note.create", <<>>)
          /\ UNCHANGED folders

\* the document findByIdAndUpdate leaves in place of d for the update
\* {title, content} with option new
updatedNote(d, body) == Pick(body, {"title", "content"}) @@ d

PutNote_idFirst(id, body) ==
  /\ req' = [op |-> "PUT /notes/:id", id |-> id, body |-> body]
  /\ IF ~isValid(id)
     THEN /\ res' = errorHandler(InvalidId)
          /\ calls' = <<>>
          /\ StoreUnchanged
     ELSE IF Falsy(body, "title")
     THEN /\ res' = errorHandler(MissingTitle)
          /\ calls' = <<>>
          /\ StoreUnchanged
     ELSE /\ calls' = Call("Note.findByIdAndUpdate", id)
          /\ IF findById(notes, id) # {}
             THEN \E d \in findById(notes, id) :
                     LET result == updatedNote(d, body)
                     IN /\ notes' = (notes \ {d}) \cup {result}
                        /\ res' = jsonResponse(200, "object", Pick(result, {"id", "title", "content"}))
             ELSE /\ res' = notFoundHandler
                  /\ UNCHANGED notes
          /\ UNCHANGED <<folders, nextOid, clock>>

PutNote(id, body) ==
  /\ req' = [op |-> "PUT /notes/:id", id |-> id, body |-> body]
  /\ IF Falsy(body, "title")
     THEN /\ res' = errorHandler(MissingTitle)
          /\ calls' = <<>>
          /\ StoreUnchanged
     ELSE IF ~isValid(id)
     THEN /\ res' = errorHandler(InvalidId)
          /\ calls' = <<>>
          /\ StoreUnchanged
     ELSE /\ calls' = Call("Note.findByIdAndUpdate", id)
          /\ IF findById(notes, id) # {}
             THEN \E d \in findById(notes, id) :
                     LET result == updatedNote(d, body)
                     IN /\ notes' = (notes \ {d}) \cup {result}
                        /\ res' = jsonResponse(200, "object", Pick(result, {"id", "title", "content"}))
             ELSE /\ res' = notFoundHandler
                  /\ UNCHANGED notes
          /\ UNCHANGED <<folders, nextOid, clock>>

deleteNoteResponse_always204(found) == jsonResponse(204, "none", <<>>)

deleteNoteResponse_inverted(found) ==
  IF found = {} THEN jsonResponse(204, "none", <<>>) ELSE notFoundHandler

\* the response of DELETE /notes/:id for the documents the removal found
deleteNoteResponse(found) ==
  IF found # {} THEN jsonResponse(204, "none", <<>>) ELSE notFoundHandler

DeleteNote(id) ==
  /\ req' = [op |-> "DELETE /notes/:id", id |-> id]
  /\ calls' = Call("Note.findByIdAndRemove", id)
  /\ IF castObjectId(id) = CastFailed
     THEN /\ res' = errorHandler(CastError)
          /\ UNCHANGED notes
     ELSE /\ notes' = notes \ findById(notes, id)
          /\ res' = deleteNoteResponse(findById(notes, id))
  /\ UNCHANGED <<folders, nextOid, clock>>

(* -------------------------- routes/folders.js -------------------------- *)
GetFolderById(id) ==
  /\ req' = [op |-> "GET /folders/:id", id |-> id]
  /\ IF ~isValid(id)
     THEN /\ res' = errorHandler(InvalidId)
          /\ calls' = <<>>
     ELSE /\ calls' = Call("Folder.findById", id)
          /\ IF findById(folders, id) # {}
             THEN \E d \in findById(folders, id) : res' = jsonResponse(200, "object", d)
             ELSE res' = notFoundHandler
  /\ StoreUnchanged

\* the unique index on name rejects a second document with the same name
nameTaken(coll, name) == \E d \in coll : d.name = name

folderCreateError_unmapped(err) == err

\* the error POST /folders forwards for a rejected Folder.create
folderCreateError(err) == IF err.code = 11000 THEN NameExists ELSE err

PostFolder(body) ==
  /\ req' = [op |-> "POST /folders", body |-> body]
  /\ IF Falsy(body, "name")
     THEN /\ res' = errorHandler(MissingName)
          /\ calls' = <<>>
          /\ StoreUnchanged
     ELSE /\ calls' = Call("Folder.create", <<>>)
          /\ IF nameTaken(folders, body.name)
             THEN /\ res' = errorHandler(folderCreateError(DuplicateKeyError))
                  /\ StoreUnchanged
             ELSE /\ nextOid <= MaxOid
                  /\ LET result == [id |-> NewObjectId(nextOid), name |-> body.name]
                     IN /\ folders' = folders \cup {result}
                        /\ res' = jsonResponse(201, "object", result)
                  /\ nextOid' = nextOid + 1
                  /\ UNCHANGED <<notes, clock>>

PutFolder(id, body) ==
  /\ req' = [op |-> "PUT /folders/:id", id |-> id, body |-> body]
  /\ IF Falsy(body, "name")
     THEN /\ res' = errorHandler(MissingName)
          /\ calls' = <<>>
          /\ StoreUnchanged
     ELSE IF ~isValid(id)
     THEN /\ res' = errorHandler(InvalidId)
          /\ calls' = <<>>
          /\ StoreUnchanged
     ELSE /\ calls' = Call("Folder.findByIdAndUpdate", id)
          /\ IF findById(folders, id) = {}
             THEN /\ res' = notFoundHandler
                  /\ UNCHANGED folders
             ELSE \E d \in findById(folders, id) :
                    IF nameTaken(folders \ {d}, body.name)
                    THEN /\ res' = errorHandler(DuplicateKeyError)
                         /\ UNCHANGED folders
                    ELSE LET result == [name |-> body.name] @@ d
                         IN /\ folders' = (folders \ {d}) \cup {result}
                            /\ res' = jsonResponse(200, "object", result)
          /\ UNCHANGED <<notes, nextOid, clock>>

DeleteFolder_notFound(id) ==
  /\ req' = [op |-> "DELETE /folders/:id", id |-> id]
  /\ calls' = Call("Folder.findByIdAndRemove", id)
  /\ IF castObjectId(id) = CastFailed
     THEN /\ res' = errorHandler(CastError)
          /\ UNCHANGED folders
     ELSE /\ folders' = folders \ findById(folders, id)
          /\ res' = IF findById(folders, id) # {}
                    THEN jsonResponse(204, "none", <<>>) ELSE notFoundHandler
  /\ UNCHANGED <<notes, nextOid, clock>>

DeleteFolder(id) ==
  /\ req' = [op |-> "DELETE /folders/:id", id |-> id]
  /\ calls' = Call("Folder.findByIdAndRemove", id)
  /\ IF castObjectId(id) = CastFailed
     THEN /\ res' = errorHandler(CastError)
          /\ UNCHANGED folders
     ELSE /\ folders' = folders \ findById(folders, id)
          /\ res' = jsonResponse(204, "none", <<>>)
  /\ UNCHANGED <<notes, nextOid, clock>>

(* ------------------------------- Next ---------------------------------- *)
Next ==
  \/ \E id \in IdInputs : DeleteNote(id)
  \/ \E id \in IdInputs : DeleteFolder(id)
  \/ \E query \in Queries : GetNotes(query)
  \/ \E id \in IdInputs : GetNoteById(id)
  \/ \E body \in NoteBodies : PostNote(body)
  \/ \E id \in IdInputs, body \in UpdateBodies : PutNote(id, body)
  \/ \E id \in IdInputs : GetFolderById(id)
  \/ \E body \in FolderBodies : PostFolder(body)
  \/ \E id \in IdInputs, body \in FolderBodies : PutFolder(id, body)

Spec == Init /\ [][Next]_vars

(* ------------------- concurrent requests on folders -------------------- *)
(* Each handler issues one model call and answers in its callback, so a    *)
(* request is in flight between the step that receives it and the step     *)
(* in which the database applies its operation and the callback answers.   *)
(* Under SpecC, req and res hold one entry per connection; a request       *)
(* records which other connections had a request in flight when it was     *)
(* received (overlap) and whether its name was free then (fresh).          *)
Connections == {"c1", "c2"}

FolderIds == {NewObjectId(n) : n \in 1..MaxOid} \cup {BadShortId}

FolderRequests ==
  {[op |-> "POST /folders", body |-> b] : b \in FolderBodies}
  \cup {[op |-> "PUT /folders/:id", id |-> i, body |-> b] : i \in FolderIds, b \in FolderBodies}
  \cup {[op |-> "DELETE /folders/:id", id |-> i] : i \in FolderIds}

Pending == jsonResponse(0, "pending", <<>>)

IdleRequest == [op |-> "none", overlap |-> {}, fresh |-> FALSE]

InitC ==
  /\ notes = {}
  /\ folders = {}
  /\ nextOid = 1
  /\ clock = 0
  /\ req = [c \in Connections |-> IdleRequest]
  /\ res = [c \in Connections |-> jsonResponse(0, "none", <<>>)]
  /\ calls = <<>>

\* the errors a folder handler raises before it calls the model
folderRejected(r) ==
  IF r.op \in {"POST /folders", "PUT /folders/:id"} /\ Falsy(r.body, "name") THEN {MissingName}
  ELSE IF r.op = "PUT /folders/:id" /\ ~isValid(r.id) THEN {InvalidId}
  ELSE {}

ReceiveFolderRequest(c, r) ==
  /\ res[c] # Pending
  /\ req' = [c2 \in Connections |->
               IF c2 = c
               THEN r @@ [overlap |-> {c3 \in Connections \ {c} : res[c3] = Pending},
                          fresh |-> /\ r.op = "POST /folders"
                                    /\ ~Falsy(r.body, "name")
                                    /\ ~\E d \in folders : d.name = r.body.name]
               ELSE [req[c2] EXCEPT !.overlap = @ \ {c}]]
  /\ res' = [res EXCEPT ![c] = IF folderRejected(r) # {}
                               THEN errorHandler(CHOOSE e \in folderRejected(r) : TRUE)
                               ELSE Pending]
  /\ UNCHANGED <<notes, folders, nextOid, clock, calls>>

CompletePostFolder(c) ==
  /\ req[c].op = "POST /folders"
  /\ res[c] = Pending
  /\ IF nameTaken(folders, req[c].body.name)
     THEN /\ res' = [res EXCEPT ![c] = errorHandler(folderCreateError(DuplicateKeyError))]
          /\ UNCHANGED <<folders, nextOid>>
     ELSE /\ nextOid <= MaxOid
          /\ LET result == [id |-> NewObjectId(nextOid), name |-> req[c].body.name]
             IN /\ folders' = folders \cup {result}
                /\ res' = [res EXCEPT ![c] = jsonResponse(201, "object", result)]
          /\ nextOid' = nextOid + 1
  /\ UNCHANGED <<notes, clock, req, calls>>

CompletePutFolder(c) ==
  /\ req[c].op = "PUT /folders/:id"
  /\ res[c] = Pending
  /\ IF findById(folders, req[c].id) = {}
     THEN /\ res' = [res EXCEPT ![c] = notFoundHandler]
          /\ UNCHANGED folders
     ELSE \E d \in findById(folders, req[c].id) :
            IF nameTaken(folders \ {d}, req[c].body.name)
            THEN /\ res' = [res EXCEPT ![c] = errorHandler(DuplicateKeyError)]
                 /\ UNCHANGED folders
            ELSE LET result == [name |-> req[c].body.name] @@ d
                 IN /\ folders' = (folders \ {d}) \cup {result}
                    /\ res' = [res EXCEPT ![c] = jsonResponse(200, "object", result)]
  /\ UNCHANGED <<notes, nextOid, clock, req, calls>>

CompleteDeleteFolder(c) ==
  /\ req[c].op = "DELETE /folders/:id"
  /\ res[c] = Pending
  /\ IF castObjectId(req[c].id) = CastFailed
     THEN /\ res' = [res EXCEPT ![c] = errorHandler(CastError)]
          /\ UNCHANGED folders
     ELSE /\ folders' = folders \ findById(folders, req[c].id)
          /\ res' = [res EXCEPT ![c] = jsonResponse(204, "none", <<>>)]
  /\ UNCHANGED <<notes, nextOid, clock, req, calls>>

NextC ==
  \/ \E c \in Connections, r \in FolderRequests : ReceiveFolderRequest(c, r)
  \/ \E c \in Connections : CompletePostFolder(c)
  \/ \E c \in Connections : CompletePutFolder(c)
  \/ \E c \in Connections : CompleteDeleteFolder(c)

SpecC == InitC /\ [][NextC]_vars

(* ======================= properties of the API ========================= *)
NoTitle(body) == "title" \notin DOMAIN body \/ body.title = <<>>
NoName(body)  == "name" \notin DOMAIN body \/ body.name = <<>>
NoSearch(query) == "searchTerm" \notin DOMAIN query \/ query.searchTerm = <<>>

SameTitleContent(a, b) == Pick(a, {"title", "content"}) = Pick(b, {"title", "content"})

NoteIdOps   == {"GET /notes/:id", "PUT /notes/:id", "DELETE /notes/:id"}
FolderIdOps == {"GET /folders/:id", "PUT /folders/:id", "DELETE /folders/:id"}

Stored(coll, id) == \E d \in coll : d.id = castObjectId(id)

(* C1: a POST /notes whose body has a non-empty title answers 201 with an
   object that holds the submitted title and content and an identifier no
   stored document had before; a GET /notes/:id with that identifier right
   after it answers 200 with the same title and content. *)
C1_Post ==
  (req'.op = "POST /notes" /\ ~NoTitle(req'.body)) =>
     /\ res'.status = 201
     /\ res'.kind = "object"
     /\ SameTitleContent(res'.body, req'.body)
     /\ IsHex24(res'.body.id)
     /\ \A d \in notes \cup folders : d.id # res'.body.id
     /\ \E d \in notes' : d.id = res'.body.id /\ SameTitleContent(d, req'.body)

C1_Get ==
  (/\ req.op = "POST /notes"
   /\ res.status = 201
   /\ req'.op = "GET /notes/:id"
   /\ req'.id = res.body.id) =>
     /\ res'.status = 200
     /\ res'.body.id = res.body.id
     /\ SameTitleContent(res'.body, req.body)

Thm_C1 == [][C1_Post /\ C1_Get]_vars

Wit_C1 ==
  /\ req.op = "POST /notes"
  /\ res.status = 201
  /\ res.body.title = <<"cats">>
  /\ res.body.content = <<"dogs", "dogs">>

(* C2: GET /notes/:id, and PUT /notes/:id with a non-empty title, answer
   400 with the message "The 'id' is not valid" for every identifier that
   is not 24 hexadecimal characters. *)
Cex_C2 ==
  (/\ req.op = "GET /notes/:id" \/ (req.op = "PUT /notes/:id" /\ ~NoTitle(req.body))
   /\ ~IsHex24(req.id)) =>
     /\ res.status = 400
     /\ res.message = "The 'id' is not valid"

(* C3: GET, PUT with a non-empty title and DELETE on /notes/:id with a
   24-hexadecimal identifier of no stored note answer 404 and leave the
   stored notes as they were. *)
C3_Step ==
  (/\ req'.op \in NoteIdOps
   /\ req'.op = "PUT /notes/:id" => ~NoTitle(req'.body)
   /\ IsHex24(req'.id)
   /\ ~Stored(notes, req'.id)) =>
     /\ res'.status = 404
     /\ notes' = notes

Thm_C3 == [][C3_Step]_vars

Wit_C3 ==
  /\ req.op = "PUT /notes/:id"
  /\ ~NoTitle(req.body)
  /\ IsHex24(req.id)
  /\ ~Stored(notes, req.id)
  /\ res.status = 404
  /\ notes # {}

(* C4: a POST or PUT on notes without a (non-empty) title, and a POST or
   PUT on folders without a (non-empty) name, answers 400 with the message
   "Missing 'title' in request body" (resp. 'name'), and the stored notes
   and folders are the same after the request as before it. *)
C4_Step ==
  /\ (req'.op \in {"POST /notes", "PUT /notes/:id"} /\ NoTitle(req'.body)) =>
        /\ res'.status = 400
        /\ res'.message = "Missing 'title' in request body"
        /\ notes' = notes
        /\ folders' = folders
  /\ (req'.op \in {"POST /folders", "PUT /folders/:id"} /\ NoName(req'.body)) =>
        /\ res'.status = 400
        /\ res'.message = "Missing 'name' in request body"
        /\ notes' = notes
        /\ folders' = folders

Thm_C4 == [][C4_Step]_vars

Wit_C4 ==
  /\ req.op = "PUT /notes/:id"
  /\ NoTitle(req.body)
  /\ Stored(notes, req.id)
  /\ res.status = 400
  /\ res.message = "Missing 'title' in request body"

(* C5: POST /folders, and PUT /folders/:id on a stored folder, with a name
   that another stored folder holds answer 400 with the message "The folder
   name already exists" and leave the stored folders as they were. *)
C5_Post ==
  (/\ req'.op = "POST /folders"
   /\ ~NoName(req'.body)
   /\ \E d \in folders : d.name = req'.body.name) =>
     /\ res'.status = 400
     /\ res'.message = "The folder name already exists"
     /\ folders' = folders

C5_Put ==
  (/\ req'.op = "PUT /folders/:id"
   /\ ~NoName(req'.body)
   /\ IsHex24(req'.id)
   /\ Stored(folders, req'.id)
   /\ \E d \in folders : d.name = req'.body.name /\ d.id # castObjectId(req'.id)) =>
     /\ res'.status = 400
     /\ res'.message = "The folder name already exists"
     /\ folders' = folders

Cex_C5 == [][C5_Post /\ C5_Put]_vars

(* C6: GET /notes without a search term answers 200 with an array that
   holds every stored note exactly once, in ascending order of created. *)
Thm_C6 ==
  (req.op = "GET /notes" /\ NoSearch(req.query)) =>
     /\ res.status = 200
     /\ res.kind = "array"
     /\ Len(res.body) = Cardinality(notes)
     /\ {res.body[i].id : i \in DOMAIN res.body} = {d.id : d \in notes}
     /\ \A i \in DOMAIN res.body :
           \E d \in notes : d.id = res.body[i].id /\ SameTitleContent(res.body[i], d)
     /\ \A i, j \in DOMAIN res.body : i < j => res.body[i].created <= res.body[j].created

Wit_C6 ==
  /\ req.op = "GET /notes"
  /\ NoSearch(req.query)
  /\ Len(res.body) = 2
  /\ res.body[1].created < res.body[2].created

(* C7: GET /notes with a non-empty search term answers 200 with an array
   that holds exactly the stored notes whose title or content has a word of
   the term, in descending order of relevance; the array is empty when no
   note matches and has the one matching note when one note matches. *)
Matches(d, term) ==
  \E k \in DOMAIN term : \E f \in {"title", "content"} \cap DOMAIN d :
     \E i \in DOMAIN d[f] : d[f][i] = term[k]

Thm_C7 ==
  (req.op = "GET /notes" /\ ~NoSearch(req.query)) =>
     LET term    == req.query.searchTerm
         matches == {d \in notes : Matches(d, term)}
     IN /\ res.status = 200
        /\ res.kind = "array"
        /\ Len(res.body) = Cardinality(matches)
        /\ {res.body[i].id : i \in DOMAIN res.body} = {d.id : d \in matches}
        /\ \A i, j \in DOMAIN res.body :
              i < j => textScore(res.body[i], term) >= textScore(res.body[j], term)
        /\ matches = {} => res.body = <<>>
        /\ \A d \in matches : matches = {d} => (Len(res.body) = 1 /\ res.body[1].id = d.id)

Wit_C7 ==
  /\ req.op = "GET /notes"
  /\ ~NoSearch(req.query)
  /\ Len(res.body) = 2
  /\ res.body[1].created > res.body[2].created
  /\ textScore(res.body[1], req.query.searchTerm) > textScore(res.body[2], req.query.searchTerm)

(* C8: PUT /notes/:id with a non-empty title and the 24-hexadecimal
   identifier of a stored note answers 200 with the record of that
   identifier, stores the submitted title, content, folderId and tags in
   that note, and leaves every other stored note as it was. *)
Replaced == {"title", "content", "folderId", "tags"}

C8_Step ==
  (/\ req'.op = "PUT /notes/:id"
   /\ ~NoTitle(req'.body)
   /\ IsHex24(req'.id)
   /\ Stored(notes, req'.id)) =>
     /\ res'.status = 200
     /\ res'.body.id = castObjectId(req'.id)
     /\ \E d \in notes' :
           /\ d.id = castObjectId(req'.id)
           /\ \A f \in Replaced \cap DOMAIN req'.body : Has(d, f) /\ d[f] = req'.body[f]
     /\ {d \in notes' : d.id # castObjectId(req'.id)}
          = {d \in notes : d.id # castObjectId(req'.id)}

Cex_C8 == [][C8_Step]_vars

(* C9: no GET, PUT or DELETE on /notes/:id or /folders/:id whose identifier
   is not 24 hexadecimal characters issues a call to the data-access
   layer. *)
Cex_C9 ==
  (req.op \in NoteIdOps \cup FolderIdOps /\ ~IsHex24(req.id)) => calls = <<>>

(* C10: DELETE /notes/:id with the identifier of a stored note answers 204
   and removes that note and no other; a GET /notes/:id with that
   identifier right after it answers 404 and a GET /notes right after it
   lists no note with that identifier. *)
C10_Delete ==
  (req'.op = "DELETE /notes/:id" /\ Stored(notes, req'.id)) =>
     /\ res'.status = 204
     /\ notes' = {d \in notes : d.id # castObjectId(req'.id)}
     /\ notes' # notes

C10_After ==
  (req.op = "DELETE /notes/:id" /\ res.status = 204) =>
     /\ (req'.op = "GET /notes/:id" /\ req'.id = req.id) => res'.status = 404
     /\ (req'.op = "GET /notes" /\ NoSearch(req'.query)) =>
           \A i \in DOMAIN res'.body : res'.body[i].id # castObjectId(req.id)

Thm_C10 == [][C10_Delete /\ C10_After]_vars

Wit_C10 ==
  /\ req.op = "DELETE /notes/:id"
  /\ res.status = 204
  /\ ~Stored(notes, req.id)
  /\ notes # {}

(* C11: every note object the notes API returns (each item of GET /notes,
   and the body of a successful GET /notes/:id, POST /notes and
   PUT /notes/:id) has exactly the fields id, title, content, folderId,
   tags and created. *)
NoteFields == {"id", "title", "content", "folderId", "tags", "created"}

Cex_C11 ==
  /\ (req.op \in {"GET /notes/:id", "POST /notes", "PUT /notes/:id"} /\ res.kind = "object") =>
        DOMAIN res.body = NoteFields
  /\ (req.op = "GET /notes" /\ res.kind = "array") =>
        \A i \in DOMAIN res.body : DOMAIN res.body[i] = NoteFields

(* C12: a PUT /notes/:id without a (non-empty) title, and a
   PUT /folders/:id without a (non-empty) name, whose identifier is not 24
   hexadecimal characters answers 400 with the "Missing 'title' in request
   body" (resp. 'name') message and not with "The 'id' is not valid". *)
C12_Step ==
  /\ (req'.op = "PUT /notes/:id" /\ NoTitle(req'.body) /\ ~IsHex24(req'.id)) =>
        /\ res'.status = 400
        /\ res'.message = "Missing 'title' in request body"
        /\ res'.message # "The 'id' is not valid"
  /\ (req'.op = "PUT /folders/:id" /\ NoName(req'.body) /\ ~IsHex24(req'.id)) =>
        /\ res'.status = 400
        /\ res'.message = "Missing 'name' in request body"
        /\ res'.message # "The 'id' is not valid"

Thm_C12 == [][C12_Step]_vars

Wit_C12 ==
  /\ req.op = "PUT /notes/:id"
  /\ NoTitle(req.body)
  /\ req.id = BadShortId
  /\ res.status = 400
  /\ res.message = "Missing 'title' in request body"

(* C14: DELETE /folders/:id with a 24-hexadecimal identifier answers 204
   whether or not a folder with that identifier is stored, removes that
   folder and no other, and the same request right after it answers 204
   again and changes no stored folder; the same DELETE repeated on
   /notes/:id answers 404 the second time. *)
C14_Delete ==
  (req'.op = "DELETE /folders/:id" /\ IsHex24(req'.id)) =>
     /\ res'.status = 204
     /\ folders' = {d \in folders : d.id # castObjectId(req'.id)}
     /\ ~Stored(folders', req'.id)

C14_Repeat ==
  /\ (/\ req.op = "DELETE /folders/:id"
      /\ res.status = 204
      /\ req'.op = "DELETE /folders/:id"
      /\ req'.id = req.id) =>
        /\ res'.status = 204
        /\ folders' = folders
  /\ (/\ req.op = "DELETE /notes/:id"
      /\ res.status = 204
      /\ req'.op = "DELETE /notes/:id"
      /\ req'.id = req.id) =>
        /\ res'.status = 404
        /\ notes' = notes

Thm_C14 == [][C14_Delete /\ C14_Repeat]_vars

Wit_C14 ==
  /\ req.op = "DELETE /folders/:id"
  /\ IsHex24(req.id)
  /\ res.status = 204
  /\ ~Stored(folders, req.id)
  /\ folders # {}

(* C13: in every state that interleavings of concurrent folder creates,
   updates and deletes reach, no two stored folders have the same name; and
   of two POST /folders with the same name that were in flight together
   while no folder had that name, one answers 201 and the other 400. *)
UniqueNames == \A d1, d2 \in folders : d1.name = d2.name => d1.id = d2.id

\* c1's request was in flight when c2's POST of a free name arrived and is
\* a POST of the same name, and both have been answered
RacedPosts(c1, c2) ==
  /\ c1 # c2
  /\ req[c1].op = "POST /folders"
  /\ req[c2].op = "POST /folders"
  /\ c1 \in req[c2].overlap
  /\ req[c2].fresh
  /\ req[c1].body = req[c2].body
  /\ res[c1] # Pending
  /\ res[c2] # Pending

====
